---- MODULE Spec2Model ----
(***************************************************************************)
(* The Puppet remote coordinator (src/puppet/server.js): one agent slot,   *)
(* a set of clients, a pending-command registry keyed by correlation id,   *)
(* one 30 s timer per forwarded command.  Every handler of the WebSocket   *)
(* server (message, close, timer callback) is one atomic action: Node runs *)
(* them on one event loop.  Further sections model the config resolver of  *)
(* server.js, the PuppetClient library (src/puppet/client.js) and the      *)
(* agent's server connection (src/src/background/serverConnection.ts).     *)
(***************************************************************************)
EXTENDS Integers, Sequences, FiniteSets, TLC

\* ---------------------------------------------------------------- bounds
NConns == 2          \* connections accepted during one run
MaxCmds == 1         \* commands forwarded to an agent during one run
NConnsWide == 3      \* the same two bounds of the wide specification
MaxCmdsWide == 2
MaxInputs == 3       \* handler runs recorded in the log
MaxSockets == 2      \* sockets the PuppetClient opens during one run
MaxRequests == 2     \* sendCommand calls during one run
MaxAgentSockets == 2 \* sockets the agent opens during one run
MaxAgentCommands == 1  \* commands the agent receives during one run

Conns == 1..NConnsWide

\* ------------------------------------------------------------ vocabulary
NULL == "null"       \* JavaScript null / undefined
NoConn == 0          \* agentConnection = null

\* `cmd_${n}`
MintId(n) == <<"cmd_1", "cmd_2", "cmd_3", "cmd_4", "cmd_5", "cmd_6">>[n]

\* message.id is falsy: absent or the empty string
Falsy(id) == id \in {NULL, ""}

CallerIds == {"a", "cmd_1"}          \* ids a client may put in a command
RespIds == {"a", "cmd_1", "cmd_2"}   \* ids an agent may put in a response
Creds == {NULL, "k1", "k2"}          \* apiKey / secret of an identify
Roles == {"agent", "client", "other"}

\* methodMap of the agent (serverConnection.ts): the recognized vocabulary, of
\* which one name is enough here, and a name that is not in it
Recognized == {"navigate"}
Methods == Recognized \cup {"bogus"}
Events == {"e1", "e2"}               \* event name and data of an event message
\* the data and error fields of a response, as one value
Payloads == {"payload", "failed"}

VARIABLES
  apiKey,            \* config.security.apiKey
  agentSecret,       \* config.security.agentSecret
  readyState,        \* per connection: NEW, OPEN, CLOSING_LOCAL, CLOSING_REMOTE, CLOSED
  role,              \* per connection: the closure variable `role`
  agentConnection,   \* the socket in the agent slot, or NoConn
  clients,           \* the Set `clients`, in insertion order
  requestCounter,
  pendingCommands,   \* the Map, in insertion order: <<[id, client, timeout]>>
  timers,            \* every timer created: [id (the closure's commandId), state]
  cmds,              \* history: per forwarded command its client, agent and outcome
  logging,           \* history: whether log is kept
  log,               \* history: every handler's input, then the frames it sent
  env,               \* process.env, per setting
  fileConfig,        \* the parsed config.json, per setting
  config,            \* the resolved config, per setting (<<>> before it is built)
  puppetClient,      \* the PuppetClient instance (client.js)
  serverConnection   \* the module state of serverConnection.ts

coordinator == <<apiKey, agentSecret, readyState, role, agentConnection, clients,
                 requestCounter, pendingCommands, timers, cmds, logging, log>>

resolver == <<env, fileConfig, config>>

vars == <<coordinator, resolver, puppetClient, serverConnection>>

\* ------------------------------------------------------- frames sent
Frame(c, t, i, s, x) == [to |-> c, type |-> t, id |-> i, ok |-> s, text |-> x]
ErrorFrame(c, e) == Frame(c, "error", NULL, FALSE, e)
ReadyFrame(c, r) == Frame(c, "ready", NULL, TRUE, r)
StatusFrame(c, s) == Frame(c, "agent-status", NULL, TRUE, s)
ResponseFrame(c, i, s, e) == Frame(c, "response", i, s, e)
CommandFrame(a, i, md) == Frame(a, "command", i, TRUE, md)
EventFrame(c, x) == Frame(c, "event", NULL, TRUE, x)

Range(s) == {s[i] : i \in 1..Len(s)}

\* --------------------------------------------------- the Map pendingCommands
Has(p, id) == \E i \in 1..Len(p) : p[i].id = id
Get(p, id) == p[CHOOSE i \in 1..Len(p) : p[i].id = id]
MapSet(p, id, client, timeout) ==
  IF Has(p, id)
  THEN [i \in 1..Len(p) |->
          IF p[i].id = id THEN [id |-> id, client |-> client, timeout |-> timeout]
          ELSE p[i]]
  ELSE Append(p, [id |-> id, client |-> client, timeout |-> timeout])
MapDelete(p, id) == SelectSeq(p, LAMBDA e : e.id # id)

\* clearTimeout on each timer of ks
ClearTimers(t, ks) ==
  [k \in 1..Len(t) |->
     IF k \in ks /\ t[k].state = "armed" THEN [t[k] EXCEPT !.state = "cleared"]
     ELSE t[k]]

\* history: the commands whose record a terminal response was sent from
Resolve(cm, ks, what) ==
  [k \in 1..Len(cm) |->
     IF k \in ks
     THEN [cm[k] EXCEPT !.outcome = IF @ = "none" THEN what ELSE "multiple"]
     ELSE cm[k]]

\* ------------------------------------------------------------ authorization
\* mutant: the API key is not compared
authorizeClient_Open(key) == TRUE

authorizeClient(key) == IF apiKey = NULL THEN TRUE ELSE key = apiKey

\* mutant: the agent secret is not compared
authorizeAgent_Open(secret) == TRUE

authorizeAgent(secret) == IF agentSecret = NULL THEN TRUE ELSE secret = agentSecret

\* socket.close(): an open socket starts the closing handshake
SocketClose(c) == [readyState EXCEPT ![c] = IF @ = "OPEN" THEN "CLOSING_LOCAL" ELSE @]

\* mutant: readyState is not tested, every client of the Set is sent the frame
broadcast_All(cl, type, text) ==
  [i \in 1..Len(cl) |-> Frame(cl[i], type, NULL, TRUE, text)]

\* broadcast(message): every client whose socket is OPEN, in Set order
broadcast(cl, type, text) ==
  LET open == SelectSeq(cl, LAMBDA c : readyState[c] = "OPEN")
  IN [i \in 1..Len(open) |-> Frame(open[i], type, NULL, TRUE, text)]

\* no connection yet, nothing pending
Start ==
  /\ readyState = [c \in Conns |-> "NEW"]
  /\ role = [c \in Conns |-> NULL]
  /\ agentConnection = NoConn
  /\ clients = <<>>
  /\ requestCounter = 0
  /\ pendingCommands = <<>>
  /\ timers = <<>>
  /\ cmds = <<>>

\* the state of the other programs while the coordinator is explored
Elsewhere ==
  /\ env = <<>> /\ fileConfig = <<>> /\ config = <<>>
  /\ puppetClient = <<>>
  /\ serverConnection = <<>>

\* defaultConfig: no API key, no agent secret
Init ==
  /\ apiKey = NULL
  /\ agentSecret = NULL
  /\ Start
  /\ logging = FALSE /\ log = <<>>
  /\ Elsewhere

\* security.apiKey is absent or configured (a non-empty string: env || file || null)
InitApiKey ==
  /\ apiKey \in {NULL, "k1"}
  /\ agentSecret = NULL
  /\ Start
  /\ logging = FALSE /\ log = <<>>
  /\ Elsewhere

\* security.agentSecret is absent or configured
InitSecret ==
  /\ apiKey = NULL
  /\ agentSecret \in {NULL, "k1"}
  /\ Start
  /\ logging = FALSE /\ log = <<>>
  /\ Elsewhere

(***************************************************************************)
(* The config resolver (server.js:45-86).  Every setting is computed from   *)
(* its own environment variable and its own field of config.json; a value   *)
(* is tested with JavaScript's truthiness (||) or with typeof.              *)
(***************************************************************************)
\* defaultConfig, one field per setting
defaultConfig ==
  [host |-> "0.0.0.0", port |-> 9222, httpEnabled |-> TRUE, httpPort |-> 9223,
   apiKey |-> NULL, agentSecret |-> NULL, allowedOrigins |-> <<"*">>, debug |-> FALSE]

Settings == DOMAIN defaultConfig
Strings == {"host", "apiKey", "agentSecret"}
Ports == {"port", "httpPort"}
Toggles == {"httpEnabled", "debug"}

NaN == 0 - 2         \* parseInt of a string that does not start with a number
NoNumber == 0 - 1    \* a numeric field that config.json does not have
NoList == <<NULL>>   \* a list that is not there

\* a variable that is not in the environment; a field that is not in the file
Unset(s) == IF s = "allowedOrigins" THEN NoList ELSE NULL
Absent(s) == IF s = "allowedOrigins" THEN NoList ELSE IF s \in Ports THEN NoNumber ELSE NULL

\* values of an environment variable (always a string; the allowed origins are
\* given as the items between the commas)
EnvValues(s) ==
  IF s \in Strings THEN {NULL, "", "fromEnv"}
  ELSE IF s \in Ports THEN {NULL, "", "9000", "abc"}
  ELSE IF s \in Toggles THEN {NULL, "", "true", "false", "yes"}
  ELSE {NoList, <<"">>, <<"a.example", " b.example ">>, <<" ", "">>}

\* values of a field of config.json ("TRUE" and "FALSE" are the JSON booleans)
FileValues(s) ==
  IF s \in Strings THEN {NULL, "", "fromFile"}
  ELSE IF s \in Ports THEN {NoNumber, 0, 8000}
  ELSE IF s \in Toggles THEN {NULL, "TRUE", "FALSE"}
  ELSE {NoList, <<>>, <<"f.example">>}

\* parseInt(x, 10) of a string
parseInt(x) == IF x = "9000" THEN 9000 ELSE NaN

\* origin.trim()
trim(x) == IF x = " b.example " THEN "b.example" ELSE IF x = " " THEN "" ELSE x

\* PUPPET_ALLOWED_ORIGINS ? split(',').map(trim).filter(Boolean) : null
allowedOriginsEnv(e) ==
  IF e \in {NoList, <<"">>} THEN NoList
  ELSE SelectSeq([i \in 1..Len(e) |-> trim(e[i])], LAMBDA x : x # "")

\* the value of setting s in config, from environment value e and file value f
Resolved(s, e, f) ==
  IF s \in Strings THEN
    IF e \notin {NULL, ""} THEN e ELSE IF f \notin {NULL, ""} THEN f ELSE defaultConfig[s]
  ELSE IF s \in Ports THEN
    IF e \notin {NULL, ""} THEN parseInt(e)
    ELSE IF f \notin {NoNumber, 0} THEN f ELSE defaultConfig[s]
  ELSE IF s \in Toggles THEN
    IF e # NULL THEN e = "true"
    ELSE IF f \in {"TRUE", "FALSE"} THEN f = "TRUE" ELSE defaultConfig[s]
  ELSE
    IF allowedOriginsEnv(e) # NoList THEN allowedOriginsEnv(e)
    ELSE IF f # NoList THEN f ELSE defaultConfig[s]

\* one setting is given in the environment, in the file, in both or in neither;
\* the other settings are given nowhere
InitConfig ==
  /\ apiKey = NULL
  /\ agentSecret = NULL
  /\ Start
  /\ logging = FALSE /\ log = <<>>
  /\ \E s \in Settings :
       \E e \in EnvValues(s), f \in FileValues(s) :
         /\ env = [t \in Settings |-> IF t = s THEN e ELSE Unset(t)]
         /\ fileConfig = [t \in Settings |-> IF t = s THEN f ELSE Absent(t)]
  /\ config = <<>>
  /\ puppetClient = <<>>
  /\ serverConnection = <<>>

\* const config = {...}: the module is loaded
LoadConfig ==
  /\ config = <<>>
  /\ config' = [s \in Settings |-> Resolved(s, env[s], fileConfig[s])]
  /\ UNCHANGED <<coordinator, env, fileConfig, puppetClient, serverConnection>>

SpecConfig == InitConfig /\ [][LoadConfig]_vars

(***************************************************************************)
(* A handler is a function of the coordinator's state and its input: it    *)
(* yields the state it leaves and `out`, its socket.send calls in order.   *)
(***************************************************************************)
\* the handler returns at once, having sent nothing
Same ==
  [readyState |-> readyState, role |-> role, agentConnection |-> agentConnection,
   clients |-> clients, requestCounter |-> requestCounter,
   pendingCommands |-> pendingCommands, timers |-> timers, cmds |-> cmds,
   out |-> <<>>]

\* error frame, then socket.close(...)
Reject(c, e) ==
  [Same EXCEPT !.out = <<ErrorFrame(c, e)>>, !.readyState = SocketClose(c)]

registerAgent(c) ==
  [Same EXCEPT !.role = [role EXCEPT ![c] = "agent"],
               !.agentConnection = c,
               !.out = <<ReadyFrame(c, "agent")>>
                       \o broadcast(clients, "agent-status", "online")]

\* mutant: the status does not depend on the agent slot
notifyClientAgentStatus_Offline(c) == StatusFrame(c, "offline")

notifyClientAgentStatus(c) ==
  StatusFrame(c, IF agentConnection # NoConn THEN "online" ELSE "offline")

\* mutant: the connection takes the role but is not added to the Set
registerClient_NoAdd(c) ==
  [Same EXCEPT !.role = [role EXCEPT ![c] = "client"],
               !.out = <<ReadyFrame(c, "client"), notifyClientAgentStatus(c)>>]

registerClient(c) ==
  [Same EXCEPT !.role = [role EXCEPT ![c] = "client"],
               !.clients = Append(clients, c),
               !.out = <<ReadyFrame(c, "client"), notifyClientAgentStatus(c)>>]

\* mutant: the identify-first violation is reported but the socket is not closed
Gate_NoClose(c, m) ==
  IF m.type # "identify"
  THEN [Same EXCEPT !.out = <<ErrorFrame(c, "Identification required")>>]
  ELSE IF m.role = "agent" THEN
    IF ~authorizeAgent(m.cred) THEN Reject(c, "Unauthorized agent")
    ELSE registerAgent(c)
  ELSE IF m.role = "client" THEN
    IF ~authorizeClient(m.cred) THEN Reject(c, "Unauthorized client")
    ELSE registerClient(c)
  ELSE Reject(c, "Unknown role")

\* socket.on('message') while the closure's role is still null
Gate(c, m) ==
  IF m.type # "identify" THEN Reject(c, "Identification required")
  ELSE IF m.role = "agent" THEN
    IF ~authorizeAgent(m.cred) THEN Reject(c, "Unauthorized agent")
    ELSE registerAgent(c)
  ELSE IF m.role = "client" THEN
    IF ~authorizeClient(m.cred) THEN Reject(c, "Unauthorized client")
    ELSE registerClient(c)
  ELSE Reject(c, "Unknown role")

\* message.id || `cmd_${++requestCounter}`
CommandId(id, counter) == IF Falsy(id) THEN MintId(counter + 1) ELSE id

\* mutant: a command that arrives while another is pending is recorded but held
\* back instead of being forwarded
Forward_Serialised(c, m) ==
  LET commandId == CommandId(m.id, requestCounter)
      timeout == Len(timers) + 1
  IN [Same EXCEPT
        !.requestCounter = IF Falsy(m.id) THEN requestCounter + 1 ELSE requestCounter,
        !.timers = Append(timers, [id |-> commandId, state |-> "armed"]),
        !.pendingCommands = MapSet(pendingCommands, commandId, c, timeout),
        !.cmds = Append(cmds, [client |-> c, agent |-> agentConnection,
                               outcome |-> "none"]),
        !.out = IF pendingCommands # <<>> THEN <<>>
                ELSE <<CommandFrame(agentConnection, commandId, m.text)>>]

\* the command is recorded and forwarded to the agent
Forward(c, m) ==
  LET commandId == CommandId(m.id, requestCounter)
      timeout == Len(timers) + 1
  IN [Same EXCEPT
        !.requestCounter = IF Falsy(m.id) THEN requestCounter + 1 ELSE requestCounter,
        !.timers = Append(timers, [id |-> commandId, state |-> "armed"]),
        !.pendingCommands = MapSet(pendingCommands, commandId, c, timeout),
        !.cmds = Append(cmds, [client |-> c, agent |-> agentConnection,
                               outcome |-> "none"]),
        !.out = <<CommandFrame(agentConnection, commandId, m.text)>>]

\* mutant: the agent slot is not tested before forwarding
handleClientMessage_NoSlotTest(c, m) ==
  IF m.type # "command"
  THEN [Same EXCEPT !.out = <<ErrorFrame(c, "Unsupported client message type")>>]
  ELSE Forward(c, m)

\* mutant: an unsupported message type is treated as a protocol error and the
\* client's socket is closed
handleClientMessage_CloseUnsupported(c, m) ==
  IF m.type # "command" THEN Reject(c, "Unsupported client message type")
  ELSE IF agentConnection = NoConn
  THEN [Same EXCEPT !.out = <<ResponseFrame(c, m.id, FALSE, "No agent connected")>>]
  ELSE Forward(c, m)

handleClientMessage(c, m) ==
  IF m.type # "command"
  THEN [Same EXCEPT !.out = <<ErrorFrame(c, "Unsupported client message type")>>]
  ELSE IF agentConnection = NoConn
  THEN [Same EXCEPT !.out = <<ResponseFrame(c, m.id, FALSE, "No agent connected")>>]
  ELSE Forward(c, m)

\* mutant: a response with success false is reported to the client as an error
\* frame and retires nothing
Deliver_FailureAsError(m) ==
  LET pending == Get(pendingCommands, m.id)
  IN IF ~m.ok THEN [Same EXCEPT !.out = <<ErrorFrame(pending.client, m.text)>>]
     ELSE [Same EXCEPT
             !.timers = ClearTimers(timers, {pending.timeout}),
             !.out = <<ResponseFrame(pending.client, m.id, m.ok, m.text)>>,
             !.pendingCommands = MapDelete(pendingCommands, m.id),
             !.cmds = Resolve(cmds, {pending.timeout}, "answer")]

\* a response whose id is pending: timer cleared, forwarded, record deleted
Deliver(m) ==
  LET pending == Get(pendingCommands, m.id)
  IN [Same EXCEPT
        !.timers = ClearTimers(timers, {pending.timeout}),
        !.out = <<ResponseFrame(pending.client, m.id, m.ok, m.text)>>,
        !.pendingCommands = MapDelete(pendingCommands, m.id),
        !.cmds = Resolve(cmds, {pending.timeout}, "answer")]

\* mutant: a response with an unknown id is not dropped; dereferencing the missing
\* record throws and the catch block answers the agent
handleAgentMessage_NoDrop(c, m) ==
  IF c # agentConnection THEN Same
  ELSE IF m.type = "response" THEN
    IF ~Has(pendingCommands, m.id)
    THEN [Same EXCEPT !.out = <<ErrorFrame(c, "Invalid message format")>>]
    ELSE Deliver(m)
  ELSE IF m.type = "event" THEN [Same EXCEPT !.out = broadcast(clients, "event", m.text)]
  ELSE Same

\* mutant: the sender is not compared with the socket in the agent slot
handleAgentMessage_AnyAgent(c, m) ==
  IF m.type = "response" THEN
    IF ~Has(pendingCommands, m.id) THEN Same ELSE Deliver(m)
  ELSE IF m.type = "event" THEN [Same EXCEPT !.out = broadcast(clients, "event", m.text)]
  ELSE Same

handleAgentMessage(c, m) ==
  IF c # agentConnection THEN Same
  ELSE IF m.type = "response" THEN
    IF ~Has(pendingCommands, m.id) THEN Same ELSE Deliver(m)
  ELSE IF m.type = "event" THEN [Same EXCEPT !.out = broadcast(clients, "event", m.text)]
  ELSE Same

\* a parsed frame; text is the method of a command, the name and data of an event
Msg(t, r, k, i, s, x) ==
  [type |-> t, role |-> r, cred |-> k, id |-> i, ok |-> s, text |-> x]

\* mutant: an identify is gated whatever the connection's role
OnMessage_Regate(c, m) ==
  IF role[c] = NULL \/ m.type = "identify" THEN Gate(c, m)
  ELSE IF role[c] = "agent" THEN handleAgentMessage(c, m)
  ELSE handleClientMessage(c, m)

\* socket.on('message') with a frame that parses to an object
OnMessage(c, m) ==
  IF role[c] = NULL THEN Gate(c, m)
  ELSE IF role[c] = "agent" THEN handleAgentMessage(c, m)
  ELSE handleClientMessage(c, m)

\* socket.on('message') with a frame that makes the handler throw
\* (JSON.parse fails, or the frame is the JSON literal null): the catch block
OnMalformed(c) == [Same EXCEPT !.out = <<ErrorFrame(c, "Invalid message format")>>]

\* the setTimeout callback of timer k
OnTimeout(k) ==
  LET commandId == timers[k].id
      fired == [timers EXCEPT ![k].state = "fired"]
  IN IF Has(pendingCommands, commandId)
     THEN LET pending == Get(pendingCommands, commandId)
          IN [Same EXCEPT
                !.timers = fired,
                !.out = <<ResponseFrame(pending.client, commandId, FALSE,
                                        "Command timeout")>>,
                !.pendingCommands = MapDelete(pendingCommands, commandId),
                !.cmds = Resolve(cmds, {pending.timeout}, "timeout")]
     ELSE [Same EXCEPT !.timers = fired]

failPendingCommands(p, reason) ==
  [i \in 1..Len(p) |-> ResponseFrame(p[i].client, p[i].id, FALSE, reason)]

\* mutant: the records of the closing client are left in the Map
cleanupPendingForClient_Keep(p, c) == p

cleanupPendingForClient(p, c) == SelectSeq(p, LAMBDA e : e.client # c)

TimersOf(p) == {e.timeout : e \in Range(p)}

\* mutant: the agent's close empties the slot but keeps the pending commands
OnClose_KeepPending(c) ==
  LET closed == [readyState EXCEPT ![c] = "CLOSED"]
  IN IF role[c] = "agent" /\ agentConnection = c THEN
       [Same EXCEPT
          !.readyState = closed,
          !.agentConnection = NoConn,
          !.out = broadcast(clients, "agent-status", "offline")]
     ELSE IF role[c] = "client" THEN
       [Same EXCEPT
          !.readyState = closed,
          !.clients = SelectSeq(clients, LAMBDA x : x # c),
          !.timers = ClearTimers(timers,
             TimersOf(SelectSeq(pendingCommands, LAMBDA e : e.client = c))),
          !.pendingCommands = cleanupPendingForClient(pendingCommands, c)]
     ELSE [Same EXCEPT !.readyState = closed]

\* mutant: the close of any agent connection empties the slot and the registry
OnClose_AnyAgent(c) ==
  LET closed == [readyState EXCEPT ![c] = "CLOSED"]
  IN IF role[c] = "agent" THEN
       [Same EXCEPT
          !.readyState = closed,
          !.agentConnection = NoConn,
          !.timers = ClearTimers(timers, TimersOf(pendingCommands)),
          !.cmds = Resolve(cmds, TimersOf(pendingCommands), "disconnected"),
          !.out = failPendingCommands(pendingCommands, "Agent disconnected")
                  \o broadcast(clients, "agent-status", "offline"),
          !.pendingCommands = <<>>]
     ELSE IF role[c] = "client" THEN
       [Same EXCEPT
          !.readyState = closed,
          !.clients = SelectSeq(clients, LAMBDA x : x # c),
          !.timers = ClearTimers(timers,
             TimersOf(SelectSeq(pendingCommands, LAMBDA e : e.client = c))),
          !.pendingCommands = cleanupPendingForClient(pendingCommands, c)]
     ELSE [Same EXCEPT !.readyState = closed]

\* mutant: the close of a connection without a role is announced to the clients
OnClose_Announced(c) ==
  LET closed == [readyState EXCEPT ![c] = "CLOSED"]
  IN IF role[c] = "agent" /\ agentConnection = c THEN
       [Same EXCEPT
          !.readyState = closed,
          !.agentConnection = NoConn,
          !.timers = ClearTimers(timers, TimersOf(pendingCommands)),
          !.cmds = Resolve(cmds, TimersOf(pendingCommands), "disconnected"),
          !.out = failPendingCommands(pendingCommands, "Agent disconnected")
                  \o broadcast(clients, "agent-status", "offline"),
          !.pendingCommands = <<>>]
     ELSE IF role[c] = "client" THEN
       [Same EXCEPT
          !.readyState = closed,
          !.clients = SelectSeq(clients, LAMBDA x : x # c),
          !.timers = ClearTimers(timers,
             TimersOf(SelectSeq(pendingCommands, LAMBDA e : e.client = c))),
          !.pendingCommands = cleanupPendingForClient(pendingCommands, c)]
     ELSE [Same EXCEPT !.readyState = closed,
                       !.out = broadcast(clients, "agent-status", "offline")]

\* mutant: the agent's close broadcasts 'offline' before it fails the commands
OnClose_StatusFirst(c) ==
  LET closed == [readyState EXCEPT ![c] = "CLOSED"]
  IN IF role[c] = "agent" /\ agentConnection = c THEN
       [Same EXCEPT
          !.readyState = closed,
          !.agentConnection = NoConn,
          !.timers = ClearTimers(timers, TimersOf(pendingCommands)),
          !.cmds = Resolve(cmds, TimersOf(pendingCommands), "disconnected"),
          !.out = broadcast(clients, "agent-status", "offline")
                  \o failPendingCommands(pendingCommands, "Agent disconnected"),
          !.pendingCommands = <<>>]
     ELSE IF role[c] = "client" THEN
       [Same EXCEPT
          !.readyState = closed,
          !.clients = SelectSeq(clients, LAMBDA x : x # c),
          !.timers = ClearTimers(timers,
             TimersOf(SelectSeq(pendingCommands, LAMBDA e : e.client = c))),
          !.pendingCommands = cleanupPendingForClient(pendingCommands, c)]
     ELSE [Same EXCEPT !.readyState = closed]

\* socket.on('close'); the socket's readyState is CLOSED by then
OnClose(c) ==
  LET closed == [readyState EXCEPT ![c] = "CLOSED"]
  IN IF role[c] = "agent" /\ agentConnection = c THEN
       [Same EXCEPT
          !.readyState = closed,
          !.agentConnection = NoConn,
          !.timers = ClearTimers(timers, TimersOf(pendingCommands)),
          !.cmds = Resolve(cmds, TimersOf(pendingCommands), "disconnected"),
          !.out = failPendingCommands(pendingCommands, "Agent disconnected")
                  \o broadcast(clients, "agent-status", "offline"),
          !.pendingCommands = <<>>]
     ELSE IF role[c] = "client" THEN
       [Same EXCEPT
          !.readyState = closed,
          !.clients = SelectSeq(clients, LAMBDA x : x # c),
          !.timers = ClearTimers(timers,
             TimersOf(SelectSeq(pendingCommands, LAMBDA e : e.client = c))),
          !.pendingCommands = cleanupPendingForClient(pendingCommands, c)]
     ELSE [Same EXCEPT !.readyState = closed]

\* GET /health: the body of the 200 reply
HealthBody ==
  [status |-> "ok", agentConnected |-> agentConnection # NoConn,
   clients |-> Len(clients)]

\* the HTTP request handler on GET /health
OnHealth == [Same EXCEPT !.out = <<HealthBody>>]

\* ------------------------------------------------------------- the actions
\* the handler's result becomes the coordinator's state
Step(r) ==
  /\ readyState' = r.readyState
  /\ role' = r.role
  /\ agentConnection' = r.agentConnection
  /\ clients' = r.clients
  /\ requestCounter' = r.requestCounter
  /\ pendingCommands' = r.pendingCommands
  /\ timers' = r.timers
  /\ cmds' = r.cmds
  /\ UNCHANGED <<apiKey, agentSecret, logging, resolver, puppetClient, serverConnection>>

\* a step that is not the run of a handler on a connection's input
Apply(r) == Step(r) /\ UNCHANGED log

\* history: the input m of connection c as the handler found it
LogIn(c, m) ==
  [dir |-> "in", conn |-> c,
   role |-> IF c = NoConn THEN NULL ELSE role[c],
   slot |-> agentConnection, msg |-> m]

LogOut(f) == [dir |-> "out", frame |-> f]

\* the traffic the coordinator routes between clients and agent
Routed(type) == type \in {"command", "response", "event"}

\* the run of a handler on input m of connection c: its sends happen during the
\* run, before the next input is read.  The log keeps the routed traffic: the
\* input when it is a routed message of an identified connection or makes the
\* handler send a routed frame, and the routed frames sent.
Handle(c, m, r) ==
  LET sent == SelectSeq(r.out, LAMBDA f : Routed(f.type))
  IN /\ Step(r)
     /\ log' = IF logging /\ ((Routed(m.type) /\ role[c] # NULL) \/ sent # <<>>)
               THEN log \o <<LogIn(c, m)>> \o [i \in 1..Len(sent) |-> LogOut(sent[i])]
               ELSE log

\* a frame of connection c can reach its message handler: the socket is open, or
\* the coordinator has called close() and the closing handshake is not finished
CanRecv(c) == readyState[c] \in {"OPEN", "CLOSING_LOCAL"}

\* all delays are 30000 ms, so timers fire in the order they were created
CanFire(k) ==
  /\ k \in 1..Len(timers)
  /\ timers[k].state = "armed"
  /\ \A j \in 1..(k - 1) : timers[j].state # "armed"

CanClose(c) == readyState[c] \in {"OPEN", "CLOSING_LOCAL", "CLOSING_REMOTE"}

IdentifyMsg(r, k) == Msg("identify", r, k, NULL, FALSE, "")
CommandMsg(i, md) == Msg("command", NULL, NULL, i, FALSE, md)
ResponseWith(i, s, x) == Msg("response", NULL, NULL, i, s, x)
ResponseMsg(i, s) == ResponseWith(i, s, "payload")
EventMsg(x) == Msg("event", NULL, NULL, NULL, FALSE, x)
OtherMsg == Msg("other", NULL, NULL, NULL, FALSE, "")
\* history: the inputs that are not parsed messages
MalformedMsg == Msg("malformed", NULL, NULL, NULL, FALSE, "")
TimerMsg(i) == Msg("timer", NULL, NULL, i, FALSE, "")
CloseMsg == Msg("close", NULL, NULL, NULL, FALSE, "")

\* wss.on('connection'): connections are numbered in the order they arrive
Connect(c) ==
  /\ readyState[c] = "NEW"
  /\ \A d \in 1..(c - 1) : readyState[d] # "NEW"
  /\ Apply([Same EXCEPT !.readyState = [readyState EXCEPT ![c] = "OPEN"]])

\* socket.on('message') runs on message m of connection c
Receive(c, m) == CanRecv(c) /\ Handle(c, m, OnMessage(c, m))

RecvIdentify(c, r, k) == Receive(c, IdentifyMsg(r, k))

\* The method of a command, the name and data of an event and the success flag
\* of a response reach only the frames a handler sends, never the coordinator's
\* state: in the actions one value stands for all of them (the claims range over
\* every value).  Likewise a missing credential and a wrong one are refused alike,
\* so identifies present no credential or the one that may be configured.
RecvCommand(c, i, mc) ==
  /\ (role[c] = "client" /\ agentConnection # NoConn) => Len(timers) < mc
  /\ Receive(c, CommandMsg(i, "navigate"))

RecvResponse(c, i) == Receive(c, ResponseMsg(i, TRUE))

RecvEvent(c) == Receive(c, EventMsg("e1"))

RecvOther(c) == Receive(c, OtherMsg)

RecvMalformed(c) == CanRecv(c) /\ Handle(c, MalformedMsg, OnMalformed(c))

Timeout(k) == CanFire(k) /\ Handle(NoConn, TimerMsg(timers[k].id), OnTimeout(k))

\* the peer's close frame arrives: readyState is CLOSING until 'close' is emitted,
\* and no further message of this peer is delivered.  Only a client's readyState
\* is ever read (by broadcast).
PeerClosing(c) ==
  /\ readyState[c] = "OPEN"
  /\ role[c] = "client"
  /\ Apply([Same EXCEPT !.readyState = [readyState EXCEPT ![c] = "CLOSING_REMOTE"]])

Close(c) == CanClose(c) /\ Handle(c, CloseMsg, OnClose(c))

Health == Apply(OnHealth)

\* the coordinator's inputs, over nc connections and mc forwarded commands
NextB(nc, mc) ==
  \/ \E c \in 1..nc : Connect(c)
  \/ \E c \in 1..nc, r \in Roles, k \in {NULL, "k1"} : RecvIdentify(c, r, k)
  \/ \E c \in 1..nc, i \in CallerIds \cup {NULL} : RecvCommand(c, i, mc)
  \/ \E c \in 1..nc, i \in RespIds : RecvResponse(c, i)
  \/ \E c \in 1..nc : RecvEvent(c)
  \/ \E c \in 1..nc : RecvOther(c)
  \/ \E c \in 1..nc : RecvMalformed(c)
  \/ \E k \in 1..mc : Timeout(k)
  \/ \E c \in 1..nc : PeerClosing(c)
  \/ \E c \in 1..nc : Close(c)
  \/ Health

Next == NextB(NConns, MaxCmds)

NextWide == NextB(NConnsWide, MaxCmdsWide)

\* the default configuration
Spec == Init /\ [][Next]_vars

\* with and without a configured API key
SpecApiKey == InitApiKey /\ [][Next]_vars

\* with and without a configured agent secret
SpecSecret == InitSecret /\ [][Next]_vars

\* the default configuration once more, for the claims on roles and routing
SpecRoles == Init /\ [][Next]_vars

\* the default configuration with the log kept
InitOrder ==
  /\ apiKey = NULL
  /\ agentSecret = NULL
  /\ Start
  /\ logging = TRUE /\ log = <<>>
  /\ Elsewhere

Inputs == {i \in 1..Len(log) : log[i].dir = "in"}

NextOrder == Cardinality(Inputs) < MaxInputs /\ NextB(NConns, MaxCmdsWide)

SpecOrder == InitOrder /\ [][NextOrder]_vars

\* the default configuration, wide bounds
SpecWide == Init /\ [][NextWide]_vars

NextTakeover == NextB(NConnsWide, MaxCmds)

\* the default configuration, with room for a client and two agents
SpecTakeover == Init /\ [][NextTakeover]_vars

(***************************************************************************)
(* The PuppetClient library (src/puppet/client.js).  puppetClient holds the *)
(* instance's fields; sockets are the WebSockets it has created (each with  *)
(* its identifyTimeout), promises the promises sendCommand has returned and *)
(* timeouts the request timers, by request number.  Every callback is one   *)
(* atomic step.  config.reconnect is true, its default.                     *)
(***************************************************************************)
NoSocket == 0        \* this.ws = null

\* the constructor
ClientStart ==
  [ws |-> NoSocket, sockets |-> <<>>, messageId |-> 0, pendingRequests |-> <<>>,
   isConnected |-> FALSE, shouldReconnect |-> TRUE,
   promises |-> <<>>, timeouts |-> <<>>, reconnects |-> 0, disconnected |-> FALSE]

\* ws.close() on socket k of sk, or this.ws?.close() with k = NoSocket
close(sk, k) ==
  [j \in 1..Len(sk) |->
     IF j = k /\ sk[j].state \in {"CONNECTING", "OPEN"}
     THEN [sk[j] EXCEPT !.state = "CLOSING"] ELSE sk[j]]

\* resolve or reject is called on the promise of request n
settle(pr, n, how, why) ==
  [i \in 1..Len(pr) |->
     IF pr[i].id = n
     THEN [pr[i] EXCEPT !.calls = @ + 1,
                        !.state = IF @ = "pending" THEN how ELSE @,
                        !.by = IF pr[i].state = "pending" THEN why ELSE @]
     ELSE pr[i]]

clearTimeout(t, ns) ==
  [n \in 1..Len(t) |-> IF n \in ns /\ t[n] = "armed" THEN "cleared" ELSE t[n]]

\* connect(), called by the user or by the reconnect timer
connect(who) ==
  [puppetClient EXCEPT
     !.sockets = Append(@, [state |-> "CONNECTING", identifyTimeout |-> "armed",
                            by |-> who,
                            late |-> who = "timer" /\ puppetClient.disconnected]),
     !.ws = Len(puppetClient.sockets) + 1,
     !.disconnected = IF who = "user" THEN FALSE ELSE @]

\* ws.onopen of socket k: the identify is sent on this.ws; nothing is assigned
ws_onopen(k) == [puppetClient EXCEPT !.sockets[k].state = "OPEN"]

\* mutant: a response resolves the promise but leaves the entry and its timer
handleMessage_KeepEntry(m) ==
  IF m.type = "response" /\ m.id # 0
     /\ \E e \in Range(puppetClient.pendingRequests) : e.id = m.id
  THEN [puppetClient EXCEPT !.promises = settle(@, m.id, "resolved", "response")]
  ELSE puppetClient

\* handleMessage(data)
handleMessage(m) ==
  IF m.type = "response" /\ m.id # 0
     /\ \E e \in Range(puppetClient.pendingRequests) : e.id = m.id
  THEN [puppetClient EXCEPT
          !.timeouts = clearTimeout(@, {m.id}),
          !.pendingRequests = SelectSeq(@, LAMBDA e : e.id # m.id),
          !.promises = settle(@, m.id, "resolved", "response")]
  ELSE puppetClient

\* ws.onmessage of socket k
ws_onmessage(k, m) ==
  IF ~puppetClient.isConnected /\ m.type = "ready"
  THEN [puppetClient EXCEPT
          !.sockets[k].identifyTimeout = IF @ = "armed" THEN "cleared" ELSE @,
          !.isConnected = TRUE]
  ELSE IF ~puppetClient.isConnected /\ m.type = "error"
  THEN LET cleared == [puppetClient.sockets EXCEPT
                         ![k].identifyTimeout = IF @ = "armed" THEN "cleared" ELSE @]
       IN [puppetClient EXCEPT !.sockets = close(cleared, puppetClient.ws)]
  ELSE handleMessage(m)

\* ws.onclose of socket k
ws_onclose(k) ==
  [puppetClient EXCEPT
     !.sockets[k].state = "CLOSED",
     !.sockets[k].identifyTimeout = IF @ = "armed" THEN "cleared" ELSE @,
     !.isConnected = FALSE,
     !.reconnects = IF puppetClient.shouldReconnect THEN @ + 1 ELSE @]

\* the identifyTimeout callback of socket k
identifyTimeout(k) ==
  [puppetClient EXCEPT
     !.sockets = close([puppetClient.sockets EXCEPT ![k].identifyTimeout = "fired"],
                       puppetClient.ws)]

\* the callback of the timer that ws.onclose set
reconnect ==
  [connect("timer") EXCEPT !.reconnects = @ - 1]

\* disconnect()
disconnect ==
  [puppetClient EXCEPT
     !.shouldReconnect = FALSE,
     !.sockets = close(@, puppetClient.ws),
     !.ws = NoSocket,
     !.isConnected = FALSE,
     !.timeouts = clearTimeout(@, {e.id : e \in Range(puppetClient.pendingRequests)}),
     !.promises =
        [i \in 1..Len(@) |->
           IF \E e \in Range(puppetClient.pendingRequests) : e.id = @[i].id
           THEN settle(@, @[i].id, "rejected", "Client disconnected")[i]
           ELSE @[i]],
     !.pendingRequests = <<>>,
     !.disconnected = TRUE]

\* sendCommand(method, params)
sendCommand ==
  IF ~puppetClient.isConnected \/ puppetClient.ws = NoSocket
  THEN [puppetClient EXCEPT
          !.promises = Append(@, [id |-> 0, state |-> "rejected",
                                  by |-> "Not connected to puppet server",
                                  calls |-> 1])]
  ELSE LET id == puppetClient.messageId + 1
           throws == puppetClient.sockets[puppetClient.ws].state = "CONNECTING"
       IN IF throws
          THEN [puppetClient EXCEPT
                  !.messageId = id,
                  !.timeouts = Append(@, "cleared"),
                  !.promises = Append(@, [id |-> id, state |-> "rejected",
                                          by |-> "send failed", calls |-> 1])]
          ELSE [puppetClient EXCEPT
                  !.messageId = id,
                  !.timeouts = Append(@, "armed"),
                  !.pendingRequests = Append(@, [id |-> id]),
                  !.promises = Append(@, [id |-> id, state |-> "pending",
                                          by |-> NULL, calls |-> 0])]

\* the callback of the timer of request n
requestTimeout(n) ==
  [puppetClient EXCEPT
     !.timeouts[n] = "fired",
     !.pendingRequests = SelectSeq(@, LAMBDA e : e.id # n),
     !.promises = settle(@, n, "rejected", "Request timeout")]

\* messages of the coordinator to a client
ServerMsgs ==
  {[type |-> t, id |-> 0] : t \in {"ready", "error", "agent-status"}}
    \cup {[type |-> "response", id |-> n] : n \in 0..MaxRequests}

InitClient ==
  /\ apiKey = NULL
  /\ agentSecret = NULL
  /\ Start
  /\ logging = FALSE /\ log = <<>>
  /\ env = <<>> /\ fileConfig = <<>> /\ config = <<>>
  /\ puppetClient = ClientStart
  /\ serverConnection = <<>>

ClientStep(pc) ==
  /\ puppetClient' = pc
  /\ UNCHANGED <<coordinator, resolver, serverConnection>>

ClientSockets == 1..Len(puppetClient.sockets)

ClientConnect ==
  /\ Len(puppetClient.sockets) < MaxSockets
  /\ ClientStep(connect("user"))

ClientOpen(k) ==
  /\ puppetClient.sockets[k].state = "CONNECTING"
  /\ ClientStep(ws_onopen(k))

\* a message is delivered while the socket is open and, where the runtime still
\* delivers then, after close() was called on it
ClientMessage(k, m) ==
  /\ puppetClient.sockets[k].state \in {"OPEN", "CLOSING"}
  /\ ClientStep(ws_onmessage(k, m))

ClientClosed(k) ==
  /\ puppetClient.sockets[k].state # "CLOSED"
  /\ ClientStep(ws_onclose(k))

ClientIdentifyTimeout(k) ==
  /\ puppetClient.sockets[k].identifyTimeout = "armed"
  /\ ClientStep(identifyTimeout(k))

ClientReconnect ==
  /\ puppetClient.reconnects > 0
  /\ Len(puppetClient.sockets) < MaxSockets
  /\ ClientStep(reconnect)

ClientDisconnect == ClientStep(disconnect)

ClientSendCommand ==
  /\ Len(puppetClient.promises) < MaxRequests
  /\ ClientStep(sendCommand)

ClientRequestTimeout(n) ==
  /\ puppetClient.timeouts[n] = "armed"
  /\ ClientStep(requestTimeout(n))

NextClient ==
  \/ ClientConnect
  \/ \E k \in ClientSockets : ClientOpen(k)
  \/ \E k \in ClientSockets, m \in ServerMsgs : ClientMessage(k, m)
  \/ \E k \in ClientSockets : ClientClosed(k)
  \/ \E k \in ClientSockets : ClientIdentifyTimeout(k)
  \/ ClientReconnect
  \/ ClientDisconnect
  \/ ClientSendCommand
  \/ \E n \in 1..Len(puppetClient.timeouts) : ClientRequestTimeout(n)

SpecClient == InitClient /\ [][NextClient]_vars

(***************************************************************************)
(* The agent's server connection (src/src/background/serverConnection.ts). *)
(* serverConnection holds the module's variables; sockets are the          *)
(* WebSockets it has created, each with the type of the first message sent *)
(* on it; commands are the command messages received, each with the socket *)
(* it arrived on and what became of it.  A socket goes from CONNECTING to  *)
(* OPEN, to CLOSING when the closing handshake starts, and to CLOSED, when *)
(* onclose runs.  connectToServer is called without a url: serverUrl is a  *)
(* valid URL and new WebSocket does not throw.                             *)
(***************************************************************************)
AgentStart ==
  [ws |-> NoSocket, isConnecting |-> FALSE, messageHandler |-> FALSE,
   sockets |-> <<>>, reconnects |-> 0, commands |-> <<>>]

\* ws && ws.readyState === WebSocket.OPEN
WsOpen(sc) == sc.ws # NoSocket /\ sc.sockets[sc.ws].state = "OPEN"

\* sendRaw(message)
sendRaw(sc, type) ==
  IF WsOpen(sc)
  THEN [sc EXCEPT !.sockets[sc.ws].first = IF @ = NULL THEN type ELSE @]
  ELSE sc

identifyAgent(sc) == sendRaw(sc, "identify")

\* connectToServer(handler)
connectToServer ==
  IF WsOpen(serverConnection) THEN serverConnection
  ELSE IF serverConnection.isConnecting THEN serverConnection
  ELSE [serverConnection EXCEPT
          !.messageHandler = TRUE,
          !.isConnecting = TRUE,
          !.sockets = Append(@, [state |-> "CONNECTING", first |-> NULL,
                                 opened |-> FALSE]),
          !.ws = Len(serverConnection.sockets) + 1]

\* ws.onopen of socket k
agent_onopen(k) ==
  identifyAgent([serverConnection EXCEPT
                   !.sockets[k].state = "OPEN",
                   !.sockets[k].opened = TRUE,
                   !.isConnecting = FALSE])

\* ws.onclose of socket k
agent_onclose(k) ==
  [serverConnection EXCEPT
     !.sockets[k].state = "CLOSED",
     !.ws = NoSocket,
     !.isConnecting = FALSE,
     !.reconnects = @ + 1]

\* the callback of the timer that ws.onclose set
agent_reconnect ==
  [connectToServer EXCEPT !.reconnects = @ - 1]

\* toExtensionMessage(method, params): the type, or "throw"
toExtensionMessage(method) == IF method \in Recognized THEN "NAVIGATE" ELSE "throw"

\* sendResponse(id, response) for command i
sendResponse(sc, i, kind) ==
  IF ~WsOpen(sc)
  THEN [sc EXCEPT
          !.commands[i].stage = "done",
          !.commands[i].dropped = sc.sockets[sc.commands[i].socket].state]
  ELSE [sc EXCEPT
          !.commands[i].stage = "done",
          !.commands[i].responses = @ + 1,
          !.commands[i].kind = kind,
          !.commands[i].sentId = sc.commands[i].id,
          !.sockets[sc.ws].first = IF @ = NULL THEN "response" ELSE @]

\* a command message of socket k as it is received
Received(k, m) ==
  [id |-> m.id, method |-> m.method, socket |-> k, stage |-> "running",
   responses |-> 0, kind |-> NULL, sentId |-> NULL, dropped |-> NULL]

\* handleServerMessage(message) for a message of socket k, up to its await
handleServerMessage(k, m) ==
  IF m.type = "ping" THEN sendRaw(serverConnection, "pong")
  ELSE IF m.type # "command" THEN serverConnection
  ELSE IF ~serverConnection.messageHandler THEN serverConnection
  ELSE LET i == Len(serverConnection.commands) + 1
           got == [serverConnection EXCEPT !.commands = Append(@, Received(k, m))]
       IN IF m.method \in {NULL, ""} THEN sendResponse(got, i, "missing method")
          ELSE IF toExtensionMessage(m.method) = "throw"
          THEN sendResponse(got, i, "failure")
          ELSE got

\* handleServerMessage after its await: the handler's promise of command i has
\* resolved (with a result that reports success or failure) or has rejected
afterHandler(i, how) ==
  sendResponse(serverConnection, i, IF how = "rejected" THEN "failure" ELSE "result")

\* emitEvent(event, data)
emitEvent == sendRaw(serverConnection, "event")

\* messages of the coordinator to the agent
AgentMsgs ==
  {[type |-> t, id |-> NULL, method |-> NULL] : t \in {"ready", "ping"}}
    \cup {[type |-> "command", id |-> "cmd_1", method |-> md] :
            md \in Methods \cup {NULL}}

InitAgent ==
  /\ apiKey = NULL
  /\ agentSecret = NULL
  /\ Start
  /\ logging = FALSE /\ log = <<>>
  /\ env = <<>> /\ fileConfig = <<>> /\ config = <<>>
  /\ puppetClient = <<>>
  /\ serverConnection = AgentStart

AgentStep(sc) ==
  /\ serverConnection' = sc
  /\ UNCHANGED <<coordinator, resolver, puppetClient>>

AgentSockets == 1..Len(serverConnection.sockets)

\* a call creates a socket only while the run has room for one
Room ==
  (~WsOpen(serverConnection) /\ ~serverConnection.isConnecting) =>
    Len(serverConnection.sockets) < MaxAgentSockets

AgentConnect == Room /\ AgentStep(connectToServer)

AgentOpen(k) ==
  /\ serverConnection.sockets[k].state = "CONNECTING"
  /\ AgentStep(agent_onopen(k))

\* the coordinator or the network starts the closing handshake of socket k
AgentClosing(k) ==
  /\ serverConnection.sockets[k].state = "OPEN"
  /\ AgentStep([serverConnection EXCEPT !.sockets[k].state = "CLOSING"])

AgentClosed(k) ==
  /\ serverConnection.sockets[k].state # "CLOSED"
  /\ AgentStep(agent_onclose(k))

AgentReconnect ==
  /\ serverConnection.reconnects > 0
  /\ Room
  /\ AgentStep(agent_reconnect)

AgentMessage(k, m) ==
  /\ serverConnection.sockets[k].state = "OPEN"
  /\ m.type = "command" => Len(serverConnection.commands) < MaxAgentCommands
  /\ AgentStep(handleServerMessage(k, m))

AgentHandlerDone(i, how) ==
  /\ serverConnection.commands[i].stage = "running"
  /\ AgentStep(afterHandler(i, how))

AgentEmitEvent == AgentStep(emitEvent)

NextAgent ==
  \/ AgentConnect
  \/ \E k \in AgentSockets : AgentOpen(k)
  \/ \E k \in AgentSockets : AgentClosing(k)
  \/ \E k \in AgentSockets : AgentClosed(k)
  \/ AgentReconnect
  \/ \E k \in AgentSockets, m \in AgentMsgs : AgentMessage(k, m)
  \/ \E i \in 1..Len(serverConnection.commands), how \in {"resolved", "rejected"} :
       AgentHandlerDone(i, how)
  \/ AgentEmitEvent

SpecAgent == InitAgent /\ [][NextAgent]_vars

(***************************************************************************)
(* The claims.  A claim about what a handler does on an input is stated    *)
(* over every reachable state and every input the state admits.            *)
(***************************************************************************)
ClientSet == Range(clients)

CommandInputs == CallerIds \cup {NULL}

\* the frames a connection can send that are not an identify
NonIdentifyMsgs ==
  {CommandMsg(i, md) : i \in CommandInputs, md \in Methods}
    \cup {ResponseMsg(i, s) : i \in RespIds, s \in BOOLEAN}
    \cup {EventMsg(x) : x \in Events} \cup {OtherMsg}

IdentifyMsgs == {IdentifyMsg(r, k) : r \in Roles, k \in Creds}

AllMsgs == IdentifyMsgs \cup NonIdentifyMsgs

CommandMsgs == {CommandMsg(i, md) : i \in CommandInputs, md \in Methods}

\* every frame up to what reaches only the frames sent in reply and never the
\* state: the method of a command, the payload of an event, the success flag
StateMsgs ==
  IdentifyMsgs
    \cup {CommandMsg(i, "navigate") : i \in CommandInputs}
    \cup {ResponseMsg(i, TRUE) : i \in RespIds}
    \cup {EventMsg("e1"), OtherMsg}

\* the registry and its timers, the agent slot and the ClientSet are as before
SameRegistry(r) == r.pendingCommands = pendingCommands /\ r.timers = timers

SameSlots(r) == r.agentConnection = agentConnection /\ r.clients = clients

\* C3: a command of a client while the agent slot is empty is answered at once
\* with {id, success:false, error:'No agent connected'}; no pending record, no
\* timer, nothing sent to any other connection, and the client stays as it was.
C3_NoAgentImmediateFailure ==
  \A c \in Conns, i \in CommandInputs, md \in Methods :
    (role[c] = "client" /\ CanRecv(c) /\ agentConnection = NoConn) =>
      LET r == OnMessage(c, CommandMsg(i, md))
      IN /\ r.out = <<ResponseFrame(c, i, FALSE, "No agent connected")>>
         /\ SameRegistry(r)
         /\ SameSlots(r)
         /\ r.requestCounter = requestCounter
         /\ r.readyState = readyState

\* a client whose agent has gone sends a command
C3_Witness ==
  \E c \in Conns, a \in Conns :
    /\ role[c] = "client" /\ readyState[c] = "OPEN" /\ c \in ClientSet
    /\ role[a] = "agent" /\ readyState[a] = "CLOSED" /\ agentConnection = NoConn
    /\ OnMessage(c, CommandMsg("a", "navigate")).out
         = <<ResponseFrame(c, "a", FALSE, "No agent connected")>>

\* C6: a response of an agent connection whose id matches no pending record is
\* dropped: nothing is sent, and every pending record and timer is as before.
C6_UnknownResponseDropped ==
  \A a \in Conns, i \in RespIds, s \in BOOLEAN :
    (role[a] = "agent" /\ CanRecv(a) /\ ~Has(pendingCommands, i)) =>
      LET r == OnMessage(a, ResponseMsg(i, s))
      IN /\ r.out = <<>>
         /\ SameRegistry(r)
         /\ SameSlots(r)
         /\ r.cmds = cmds
         /\ r.readyState = readyState

\* the agent answers with an id that is not pending while a command is pending
C6_Witness ==
  \E i \in RespIds :
    /\ agentConnection # NoConn
    /\ CanRecv(agentConnection)
    /\ pendingCommands # <<>>
    /\ ~Has(pendingCommands, i)
    /\ OnMessage(agentConnection, ResponseMsg(i, TRUE)).out = <<>>

\* C8: on a connection that has not identified, a message that is not an identify
\* is answered with 'Identification required' and the socket is closed; the agent
\* slot, the ClientSet and the registry are unchanged and nothing is forwarded.
C8_IdentifyFirst ==
  \A c \in Conns, m \in NonIdentifyMsgs :
    (role[c] = NULL /\ CanRecv(c)) =>
      LET r == OnMessage(c, m)
      IN /\ r.out = <<ErrorFrame(c, "Identification required")>>
         /\ r.readyState = [readyState EXCEPT ![c] = "CLOSING_LOCAL"]
         /\ r.role = role
         /\ SameSlots(r)
         /\ SameRegistry(r)
         /\ r.cmds = cmds

\* a fresh connection sends a command while an agent is connected
C8_Witness ==
  \E c \in Conns :
    /\ role[c] = NULL /\ readyState[c] = "OPEN"
    /\ agentConnection # NoConn
    /\ OnMessage(c, CommandMsg("a", "navigate")).readyState[c] = "CLOSING_LOCAL"

\* what each input on connection c adds to the ClientSet and to the agent slot
Admitted(r) == Range(r.clients) \ ClientSet

Authorized(configured, presented) == configured = NULL \/ presented = configured

C10_AgentAuthorization ==
  /\ \A c \in Conns :
       CanRecv(c) =>
         \A m \in StateMsgs :
         LET r == OnMessage(c, m)
         IN /\ r.agentConnection \in {agentConnection, c}
            /\ r.agentConnection # agentConnection =>
                 /\ m.type = "identify" /\ m.role = "agent"
                 /\ Authorized(agentSecret, m.cred)
            /\ (role[c] = NULL /\ m.type = "identify" /\ m.role = "agent"
                  /\ ~Authorized(agentSecret, m.cred)) =>
                 /\ r.out = <<ErrorFrame(c, "Unauthorized agent")>>
                 /\ r.readyState = [readyState EXCEPT ![c] = "CLOSING_LOCAL"]
                 /\ r.role = role
                 /\ SameSlots(r)
                 /\ SameRegistry(r)
  /\ \A c \in Conns : CanRecv(c) => OnMalformed(c).agentConnection = agentConnection
  /\ \A c \in Conns : CanClose(c) => OnClose(c).agentConnection \in {agentConnection, NoConn}
  /\ \A k \in 1..Len(timers) : CanFire(k) => OnTimeout(k).agentConnection = agentConnection
  /\ agentConnection # NoConn => role[agentConnection] = "agent"

\* with a secret configured, an agent is in the slot and another connection
\* presents no secret
C10_Witness ==
  \E c \in Conns :
    /\ agentSecret # NULL
    /\ agentConnection # NoConn
    /\ role[c] = NULL /\ readyState[c] = "OPEN"
    /\ OnMessage(c, IdentifyMsg("agent", NULL)).out
         = <<ErrorFrame(c, "Unauthorized agent")>>

Connected(c) == c \in ClientSet /\ readyState[c] = "OPEN"

\* the handler's result but for what it sent
Effect(r) == [r EXCEPT !.out = <<>>]

OpenClients == {c \in ClientSet : readyState[c] = "OPEN"}

NoEventFrame(r) == \A f \in Range(r.out) : f.type # "event"

StatusTo(out, c) == SelectSeq(out, LAMBDA f : f.to = c /\ f.type = "agent-status")

StatusOf(a) == IF a # NoConn THEN "online" ELSE "offline"

\* what handler result r told the clients cs of the agent slot: a client that
\* has just identified is sent 'ready' and then one agent-status; when the slot
\* changes every client of cs is sent an agent-status; and the last agent-status
\* sent to a client says what the slot is after the handler
Told(r, cs) ==
  \A c \in cs :
    LET st == StatusTo(r.out, c)
    IN /\ c \notin ClientSet =>
            r.out = <<ReadyFrame(c, "client"), StatusFrame(c, StatusOf(r.agentConnection))>>
       /\ r.agentConnection # agentConnection => st # <<>>
       /\ st # <<>> => st[Len(st)].text = StatusOf(r.agentConnection)

ClientsOf(r) == Range(r.clients)

OpenClientsOf(r) == {c \in Range(r.clients) : r.readyState[c] = "OPEN"}

\* those of the clients a handler leaves in the ClientSet that it has to tell
ToTell(r, open) == IF open THEN OpenClientsOf(r) ELSE ClientsOf(r)

\* handler result r tells the clients it has to tell (a handler that sends
\* nothing and leaves the slot and the Set as they were has nothing to tell)
Tells(r, open) ==
  (r.out # <<>> \/ r.agentConnection # agentConnection \/ r.clients # clients) =>
    Told(r, ToTell(r, open))

\* every handler, on every input the state admits, tells these clients
ToldByAll(open) ==
  /\ \A c \in Conns :
       CanRecv(c) =>
         /\ \A m \in StateMsgs : Tells(OnMessage(c, m), open)
         /\ Tells(OnMalformed(c), open)
  /\ \A c \in Conns : CanClose(c) => Tells(OnClose(c), open)
  /\ \A k \in 1..Len(timers) : CanFire(k) => Tells(OnTimeout(k), open)

\* C15 as claimed: every handler keeps every client of the ClientSet told of the
\* agent slot, so that the last agent-status sent to each says 'online' exactly
\* when the slot is occupied.
C15_EveryClientTold == ToldByAll(FALSE)

\* C15 as amended: every handler keeps every client of the ClientSet whose
\* socket is open told of the agent slot ('ready', then one agent-status, on its
\* identification; an agent-status on every change of the slot), so that the last
\* agent-status sent to each open client says 'online' exactly when the slot is
\* occupied.
C15_OpenClientsTold == ToldByAll(TRUE)

\* an open client is told 'online' when an agent identifies
C15_Witness ==
  \E c \in Conns, a \in Conns :
    /\ c \in OpenClients
    /\ agentConnection = NoConn
    /\ role[a] = NULL /\ readyState[a] = "OPEN"
    /\ StatusTo(OnMessage(a, IdentifyMsg("agent", NULL)).out, c)
         = <<StatusFrame(c, "online")>>

\* the command frames a handler sent
CommandFrames(r) == SelectSeq(r.out, LAMBDA f : f.type = "command")

\* C16: a command is forwarded once, by the handler that receives it, to the
\* connection in the agent slot at that moment; no other handler (an agent's
\* identify, a close, a timer) sends a command frame, so nothing is retried or
\* replayed to a later agent; and the registry is empty whenever the slot is.
C16_NoRetryNoBuffer ==
  /\ \A c \in Conns :
       CanRecv(c) =>
         /\ \A m \in StateMsgs \cup CommandMsgs :
              LET cf == CommandFrames(OnMessage(c, m))
              IN IF role[c] = "client" /\ m.type = "command" /\ agentConnection # NoConn
                 THEN /\ Len(cf) = 1
                      /\ cf[1].to = agentConnection
                      /\ cf[1].text = m.text
                      /\ ~Falsy(m.id) => cf[1].id = m.id
                 ELSE cf = <<>>
         /\ CommandFrames(OnMalformed(c)) = <<>>
  /\ \A c \in Conns : CanClose(c) => CommandFrames(OnClose(c)) = <<>>
  /\ \A k \in 1..Len(timers) : CanFire(k) => CommandFrames(OnTimeout(k)) = <<>>
  /\ agentConnection = NoConn => pendingCommands = <<>>

\* the agent has gone while a command was pending: the slot and the registry are
\* empty, and the command's client, still connected, sends the next command
C16_Witness ==
  \E k \in 1..Len(cmds) :
    /\ cmds[k].outcome = "disconnected"
    /\ Connected(cmds[k].client)
    /\ agentConnection = NoConn /\ pendingCommands = <<>>
    /\ CommandFrames(OnMessage(cmds[k].client, CommandMsg("a", "navigate"))) = <<>>

\* the connections that identified as client and have not closed
IdentifiedClients == {c \in Conns : role[c] = "client" /\ readyState[c] # "CLOSED"}

\* C19: the ClientSet holds, once each, exactly the connections that identified
\* as client and have not closed; the health endpoint reports whether the agent
\* slot is occupied and how many such connections there are, and changes nothing.
C19_ClientSetAndHealth ==
  /\ ClientSet = IdentifiedClients
  /\ Len(clients) = Cardinality(ClientSet)
  /\ OnHealth.out = <<[status |-> "ok",
                       agentConnected |-> agentConnection # NoConn,
                       clients |-> Cardinality(IdentifiedClients)]>>
  /\ Effect(OnHealth) = Same

\* one client has identified and closed, another is still connected
C19_Witness ==
  \E c \in Conns, d \in Conns :
    /\ role[c] = "client" /\ readyState[c] = "CLOSED"
    /\ role[d] = "client" /\ readyState[d] = "OPEN"
    /\ ClientSet = {d}
    /\ OnHealth.out[1].clients = 1

\* connection a identified as agent and a later agent took the slot from it
Replaced(a) == role[a] = "agent" /\ a # agentConnection

\* C22: an agent identify on a fresh connection takes the slot also when it is
\* occupied; whatever then arrives on the replaced agent connection (responses
\* and events above all) is ignored: nothing is sent, no timer is cancelled, no
\* record removed, and it never gets the slot back.
C22_ReplacedAgentIgnored ==
  /\ \A c \in Conns, k \in Creds :
       (role[c] = NULL /\ CanRecv(c) /\ agentConnection # NoConn) =>
         OnMessage(c, IdentifyMsg("agent", k)).agentConnection = c
  /\ \A a \in Conns :
       (Replaced(a) /\ CanRecv(a)) => \A m \in AllMsgs : OnMessage(a, m) = Same

\* the replaced agent answers a command that was forwarded to it and is still
\* pending under the newer agent
C22_Witness ==
  \E a \in Conns, e \in Range(pendingCommands) :
    /\ Replaced(a) /\ readyState[a] = "OPEN"
    /\ agentConnection # NoConn
    /\ cmds[e.timeout].agent = a
    /\ Connected(e.client)
    /\ OnMessage(a, ResponseMsg(e.id, TRUE)) = Same

\* C23: the close of a replaced agent connection changes nothing but that
\* socket's state: the slot keeps its occupant, no pending command is failed, no
\* timer is cancelled and nothing is sent (no 'offline').
C23_ReplacedAgentClose ==
  \A a \in Conns :
    (Replaced(a) /\ CanClose(a)) =>
      OnClose(a) = [Same EXCEPT !.readyState = [readyState EXCEPT ![a] = "CLOSED"]]

\* a replaced agent can close while the newer agent holds the slot, a command is
\* pending and its client is connected
C23_Witness ==
  \E a \in Conns, e \in Range(pendingCommands) :
    /\ Replaced(a) /\ readyState[a] = "OPEN"
    /\ agentConnection # NoConn
    /\ Connected(e.client)
    /\ OnClose(a).agentConnection = agentConnection
    /\ OnClose(a).out = <<>>

\* C25: the owner of every pending record is in the ClientSet: a connection that
\* identified as client and has not closed.
C25_OwnerInClientSet ==
  \A e \in Range(pendingCommands) :
    /\ e.client \in ClientSet
    /\ role[e.client] = "client"
    /\ readyState[e.client] # "CLOSED"

\* a client closed while its command was pending, and its record is gone
C25_Witness ==
  \E k \in 1..Len(cmds) :
    /\ readyState[cmds[k].client] = "CLOSED"
    /\ cmds[k].outcome = "none"
    /\ timers[k].state = "cleared"
    /\ agentConnection = cmds[k].agent
    /\ pendingCommands = <<>>

\* handler result r leaves every assigned role as it is
KeepsRoles(r) == \A d \in Conns : role[d] # NULL => r.role[d] = role[d]

Unsupported(c) == [Same EXCEPT !.out = <<ErrorFrame(c, "Unsupported client message type")>>]

\* C26: no handler changes a role once it is assigned; an identify (of either
\* role) on a connection that is a client is answered 'Unsupported client
\* message type' and changes nothing; an identify on a connection that is an
\* agent is ignored: nothing is sent (no 'ready', no 'online') and nothing changes.
C26_RoleAssignedOnce ==
  /\ \A c \in Conns :
       CanRecv(c) =>
         /\ \A m \in StateMsgs : KeepsRoles(OnMessage(c, m))
         /\ KeepsRoles(OnMalformed(c))
         /\ role[c] = "client" => \A m \in IdentifyMsgs : OnMessage(c, m) = Unsupported(c)
         /\ role[c] = "agent" => \A m \in IdentifyMsgs : OnMessage(c, m) = Same
  /\ \A c \in Conns : CanClose(c) => KeepsRoles(OnClose(c))
  /\ \A k \in 1..Len(timers) : CanFire(k) => KeepsRoles(OnTimeout(k))

\* a client and the agent in the slot each send a further identify
C26_Witness ==
  \E c \in Conns :
    /\ Connected(c)
    /\ agentConnection # NoConn /\ readyState[agentConnection] = "OPEN"
    /\ OnMessage(c, IdentifyMsg("agent", NULL)).out
         = <<ErrorFrame(c, "Unsupported client message type")>>
    /\ OnMessage(agentConnection, IdentifyMsg("agent", NULL)).out = <<>>

\* C27: a message of a client whose type is not 'command' is answered with one
\* error frame to that client and changes nothing (the client stays open and in
\* the ClientSet, nothing goes to the agent, the registry is as before); a message
\* of the agent whose type is neither 'response' nor 'event' sends nothing and
\* changes nothing.
C27_RoleFiltering ==
  \A c \in Conns, m \in AllMsgs :
    CanRecv(c) =>
      /\ (role[c] = "client" /\ m.type # "command") => OnMessage(c, m) = Unsupported(c)
      /\ (role[c] = "agent" /\ m.type \notin {"response", "event"}) =>
           OnMessage(c, m) = Same

\* a client with a pending command sends a message of another type
C27_Witness ==
  \E e \in Range(pendingCommands) :
    /\ Connected(e.client)
    /\ agentConnection # NoConn
    /\ OnMessage(e.client, OtherMsg).out
         = <<ErrorFrame(e.client, "Unsupported client message type")>>
    /\ OnMessage(agentConnection, OtherMsg).out = <<>>

\* C29: a response of the current agent whose id is pending is forwarded to the
\* record's client with the same id, success flag and payload, whether success is
\* true or false; it removes the record, cancels the record's timer and changes
\* nothing else: no connection is closed.
C29_ResponsePassedThrough ==
  \A e \in Range(pendingCommands), s \in BOOLEAN, x \in Payloads :
    (agentConnection # NoConn /\ CanRecv(agentConnection)) =>
      LET r == OnMessage(agentConnection, ResponseWith(e.id, s, x))
      IN /\ r.out = <<ResponseFrame(e.client, e.id, s, x)>>
         /\ r.pendingCommands = MapDelete(pendingCommands, e.id)
         /\ r.timers = ClearTimers(timers, {e.timeout})
         /\ r.timers[e.timeout].state = "cleared"
         /\ r.readyState = readyState /\ r.role = role
         /\ r.clients = clients /\ r.agentConnection = agentConnection

\* the agent reports a failure for a pending command of an open client
C29_Witness ==
  \E e \in Range(pendingCommands) :
    /\ Connected(e.client)
    /\ agentConnection # NoConn /\ CanRecv(agentConnection)
    /\ OnMessage(agentConnection, ResponseWith(e.id, FALSE, "failed")).out
         = <<ResponseFrame(e.client, e.id, FALSE, "failed")>>

Disconnected(e) == ResponseFrame(e.client, e.id, FALSE, "Agent disconnected")

\* in the frames out, the failure of record e comes before every agent-status
\* sent to e's client, and every such agent-status says 'offline'
FailureThenOffline(out, e) ==
  \E i \in 1..Len(out) :
    /\ out[i] = Disconnected(e)
    /\ \A j \in 1..Len(out) :
         (out[j].to = e.client /\ out[j].type = "agent-status") =>
           (j > i /\ out[j].text = "offline")

\* an agent has closed and the slot is empty
AgentGone ==
  agentConnection = NoConn /\ \E a \in Conns : role[a] = "agent" /\ readyState[a] = "CLOSED"

\* C30: the close of the connection in the agent slot leaves the slot and the
\* registry empty; for every pending record the 'Agent disconnected' failure is
\* sent to the record's client before any agent-status to that client, and a
\* client whose socket is open is then sent 'offline' once; once an agent has
\* closed and the slot is empty, a command of a client is answered 'No agent
\* connected' and changes nothing.
C30_AgentCloseOrder ==
  /\ (agentConnection # NoConn /\ CanClose(agentConnection)) =>
       LET r == OnClose(agentConnection)
       IN /\ r.agentConnection = NoConn
          /\ r.pendingCommands = <<>>
          /\ \A e \in Range(pendingCommands) :
               /\ FailureThenOffline(r.out, e)
               /\ Connected(e.client) =>
                    StatusTo(r.out, e.client) = <<StatusFrame(e.client, "offline")>>
  /\ AgentGone =>
       \A c \in Conns, m \in CommandMsgs :
         (role[c] = "client" /\ CanRecv(c)) =>
           OnMessage(c, m)
             = [Same EXCEPT !.out = <<ResponseFrame(c, m.id, FALSE, "No agent connected")>>]

\* the agent closes while an open client has a pending command
C30_Witness ==
  \E e \in Range(pendingCommands) :
    /\ Connected(e.client)
    /\ agentConnection # NoConn /\ CanClose(agentConnection)
    /\ OnClose(agentConnection).out
         = <<Disconnected(e), StatusFrame(e.client, "offline")>>

\* connection c has been turned away by the gate: close() was called on it while
\* it had no role
Rejected(c) == role[c] = NULL /\ readyState[c] = "CLOSING_LOCAL"

\* C32: the close of a connection that has no role, whether it never sent an
\* identify or the gate rejected it, leaves the agent slot, the ClientSet and the
\* pending registry (timers included) as they are and sends nothing.
C32_UnidentifiedClose ==
  \A c \in Conns :
    (role[c] = NULL /\ CanClose(c)) =>
      OnClose(c) = [Same EXCEPT !.readyState = [readyState EXCEPT ![c] = "CLOSED"]]

\* a rejected connection closes while a client is connected
C32_Witness ==
  \E c \in Conns :
    /\ Rejected(c) /\ CanClose(c)
    /\ OpenClients # {}
    /\ OnClose(c).out = <<>>

\* the input during whose handling log[j] was sent
Cause(j) == CHOOSE i \in Inputs : i < j /\ \A k \in Inputs : k < j => k <= i

Positions == [i \in 1..Len(log) |-> i]

\* the commands of client c that the router accepted, in receipt order
CommandsIn(c) ==
  SelectSeq(Positions, LAMBDA i :
    /\ log[i].dir = "in" /\ log[i].conn = c /\ log[i].role = "client"
    /\ log[i].msg.type = "command" /\ log[i].slot # NoConn)

\* the command frames sent while a message of connection c was handled, in the
\* order they were sent
CommandsOut(c) ==
  SelectSeq(Positions, LAMBDA j :
    /\ log[j].dir = "out" /\ log[j].frame.type = "command"
    /\ log[Cause(j)].conn = c)

\* the frame at log[j] carries the command received at log[i]
Carries(j, i) ==
  /\ log[j].frame.to = log[i].slot
  /\ log[j].frame.text = log[i].msg.text
  /\ ~Falsy(log[i].msg.id) => log[j].frame.id = log[i].msg.id

\* the frame at log[j] passes on a response or an event of the agent
PassedOn(j) ==
  /\ log[j].dir = "out"
  /\ \/ log[j].frame.type = "event"
     \/ log[j].frame.type = "response" /\ log[j].frame.text \in Payloads

\* C31: the commands of one client are forwarded to the agent in the order they
\* were received from it, each before the next message is handled; every
\* response or event passed on to a client is sent while the agent's message
\* that carries it is handled, so in the order the agent's messages were received.
C31_ReceiptOrder ==
  /\ \A c \in Conns :
       LET in == CommandsIn(c)
           out == CommandsOut(c)
       IN /\ Len(out) = Len(in)
          /\ \A k \in 1..Len(in) :
               /\ Carries(out[k], in[k])
               /\ in[k] < out[k]
               /\ k < Len(in) => out[k] < in[k + 1]
  /\ \A j \in 1..Len(log) :
       PassedOn(j) =>
         LET h == log[Cause(j)]
             f == log[j].frame
         IN /\ h.role = "agent" /\ h.conn = h.slot
            /\ h.msg.type = f.type
            /\ h.msg.text = f.text
            /\ f.type = "response" => (h.msg.id = f.id /\ h.msg.ok = f.ok)

\* one client has had two commands forwarded and the first of them answered
C31_Witness ==
  \E c \in Conns :
    /\ Len(CommandsOut(c)) = 2
    /\ log[CommandsOut(c)[1]].frame.id # log[CommandsOut(c)[2]].frame.id
    /\ \E j \in 1..Len(log) : PassedOn(j) /\ log[j].frame.type = "response"

\* request n has an entry in pendingRequests
Pending(n) == \E e \in Range(puppetClient.pendingRequests) : e.id = n

\* promise p has settled once and for good: resolve or reject was called on it
\* once, it has no entry and its timer cannot fire; or it has not settled, has
\* its entry and its timer is armed
SettledOnce(p) ==
  /\ p.calls <= 1
  /\ p.state = "pending" <=> p.calls = 0
  /\ p.state = "pending" => (Pending(p.id) /\ puppetClient.timeouts[p.id] = "armed")
  /\ p.state # "pending" =>
       (~Pending(p.id) /\ (p.id # 0 => puppetClient.timeouts[p.id] # "armed"))

\* the three ways a registered request settles
Outcomes == {"response", "Request timeout", "Client disconnected"}

\* the error of a call that registered nothing or whose send threw
Refusals == {"Not connected to puppet server", "send failed"}

\* C34 as stated: the promise of every sendCommand call settles exactly once, by
\* the first matching response, by its own timeout or by disconnect(); once
\* settled it has no entry in pendingRequests and nothing acts on it again.
C34_SettlesOnceThreeWays ==
  \A p \in Range(puppetClient.promises) :
    /\ SettledOnce(p)
    /\ p.state # "pending" => p.by \in Outcomes
    /\ p.state = "resolved" <=> p.by = "response"

\* C34 amended: the promise of every sendCommand call settles exactly once: a
\* call made while the client is not connected, or whose send throws, is rejected
\* at once and leaves no entry; every other call is resolved by the first matching
\* response, rejected by its own timeout or rejected by disconnect(); once settled
\* it has no entry in pendingRequests and nothing acts on it again.
C34_SettlesOnce ==
  \A p \in Range(puppetClient.promises) :
    /\ SettledOnce(p)
    /\ p.state # "pending" => p.by \in Outcomes \cup Refusals
    /\ p.state = "resolved" <=> p.by = "response"
    /\ p.by \in Refusals => ~Pending(p.id)

\* one request was resolved by its response, another rejected by disconnect(),
\* and a response for the first can still arrive
C34_Witness ==
  /\ \E p, q \in Range(puppetClient.promises) :
       /\ p.by = "response" /\ q.by = "Client disconnected"
  /\ \E k \in ClientSockets : puppetClient.sockets[k].state \in {"OPEN", "CLOSING"}

\* ------------------------------------------------ claims the code falsifies
\* command k was forwarded and nothing has answered it: its timer is armed and
\* no terminal response was sent from its record
Awaiting(k) == timers[k].state = "armed" /\ cmds[k].outcome = "none"

\* C1: every command forwarded while an agent is connected, its client and that
\* agent staying connected, gets exactly one terminal response: nothing while
\* its deadline is armed and no answer came, the agent's answer if the answer
\* cancelled the deadline, a 'Command timeout' once the deadline has fired.
C1_ExactlyOneResponse ==
  \A k \in 1..Len(cmds) :
    (/\ Connected(cmds[k].client)
     /\ agentConnection = cmds[k].agent
     /\ readyState[cmds[k].agent] = "OPEN") =>
      /\ timers[k].state = "armed" => cmds[k].outcome = "none"
      /\ timers[k].state = "cleared" => cmds[k].outcome = "answer"
      /\ timers[k].state = "fired" => cmds[k].outcome = "timeout"

\* C2: with commands of two connected clients awaiting, the agent's response to
\* one of them is sent to the client that issued it and to no other connection.
C2_ResponseToIssuer ==
  \A k1 \in 1..Len(cmds), k2 \in 1..Len(cmds), s \in BOOLEAN :
    (/\ cmds[k1].client # cmds[k2].client
     /\ Connected(cmds[k1].client) /\ Connected(cmds[k2].client)
     /\ Awaiting(k1) /\ Awaiting(k2)
     /\ agentConnection = cmds[k1].agent
     /\ CanRecv(agentConnection)) =>
      OnMessage(agentConnection, ResponseMsg(timers[k1].id, s)).out
        = <<ResponseFrame(cmds[k1].client, timers[k1].id, s, "payload")>>

\* C4: when the connection in the agent slot closes, every command still
\* awaiting a response is answered 'Agent disconnected' to its client, its timer
\* is cancelled, and the registry is empty.
C4_AgentCloseFailsAll ==
  (agentConnection # NoConn /\ CanClose(agentConnection)) =>
    LET r == OnClose(agentConnection)
    IN /\ r.pendingCommands = <<>>
       /\ \A k \in 1..Len(cmds) :
            (Awaiting(k) /\ cmds[k].client \in ClientSet) =>
              /\ r.cmds[k].outcome = "disconnected"
              /\ r.timers[k].state = "cleared"
              /\ ResponseFrame(cmds[k].client, timers[k].id, FALSE,
                               "Agent disconnected") \in Range(r.out)

\* C5: the close of a client removes it from the ClientSet with every record it
\* owns, sending nothing; no record is owned by a closed connection, no handler
\* sends to a closed connection, and a timer of a command that a closed client
\* issued sends nothing and leaves the registry alone when it fires.
C5_ClientCloseSilences ==
  /\ \A c \in Conns :
       (role[c] = "client" /\ CanClose(c)) =>
         LET r == OnClose(c)
         IN /\ c \notin Range(r.clients)
            /\ \A e \in Range(r.pendingCommands) : e.client # c
            /\ \A e \in Range(pendingCommands) :
                 e.client = c => r.timers[e.timeout].state = "cleared"
            /\ r.out = <<>>
  /\ \A e \in Range(pendingCommands) : readyState[e.client] # "CLOSED"
  /\ \A k \in 1..Len(timers) :
       (CanFire(k) /\ readyState[cmds[k].client] = "CLOSED") =>
         /\ OnTimeout(k).out = <<>>
         /\ OnTimeout(k).pendingCommands = pendingCommands

\* C7: once a command's record was retired by a timeout, the agent's response to
\* that command is delivered to no client.
C7_LateResponseDropped ==
  \A k \in 1..Len(cmds), s \in BOOLEAN :
    (/\ cmds[k].outcome = "timeout"
     /\ agentConnection = cmds[k].agent
     /\ CanRecv(agentConnection)) =>
      OnMessage(agentConnection, ResponseMsg(timers[k].id, s)).out = <<>>

\* C11: a command of a client whose method is not in the recognized vocabulary
\* is answered to that client with a failure, by the coordinator alone: no
\* pending record, no timer, and no frame to any other connection.
C11_UnknownMethodRejected ==
  \A c \in Conns, i \in CommandInputs, md \in Methods \ Recognized :
    (role[c] = "client" /\ CanRecv(c)) =>
      LET r == OnMessage(c, CommandMsg(i, md))
      IN /\ r.out # <<>>
         /\ \A f \in Range(r.out) :
              f.to = c /\ f.type \in {"response", "error"} /\ ~f.ok
         /\ SameRegistry(r)

\* the coordinator has closed connection c in the handler's result
ClosedBy(r, c) == r.readyState = SocketClose(c) /\ r.readyState[c] # "OPEN"

\* C12: a frame that cannot be parsed, a first message that is not an identify,
\* and an identify with an unknown role are each answered to the sender with one
\* error frame, and the coordinator then closes that connection.
C12_ProtocolErrorCloses ==
  /\ \A c \in Conns :
       CanRecv(c) =>
         LET r == OnMalformed(c)
         IN /\ r.out = <<ErrorFrame(c, "Invalid message format")>>
            /\ ClosedBy(r, c)
  /\ \A c \in Conns, m \in NonIdentifyMsgs :
       (role[c] = NULL /\ CanRecv(c)) =>
         LET r == OnMessage(c, m)
         IN /\ r.out = <<ErrorFrame(c, "Identification required")>>
            /\ ClosedBy(r, c)
  /\ \A c \in Conns, k \in Creds :
       (role[c] = NULL /\ CanRecv(c)) =>
         LET r == OnMessage(c, IdentifyMsg("other", k))
         IN /\ r.out = <<ErrorFrame(c, "Unknown role")>>
            /\ ClosedBy(r, c)

\* a response envelope with command k's id was sent to k's client after the
\* coordinator received k
Answered(k) ==
  \E j \in k..Len(cmds) :
    /\ cmds[j].client = cmds[k].client
    /\ timers[j].id = timers[k].id
    /\ cmds[j].outcome # "none"

NoDeadlineLeft == \A j \in 1..Len(timers) : timers[j].state # "armed"

\* C13: no command stays unanswered.  A command received while the agent slot
\* is empty is answered at once; a forwarded command whose client is still
\* connected has been sent a response envelope by the time no deadline is left
\* to fire (after which no handler can still answer it).
C13_EveryCommandAnswered ==
  /\ \A c \in Conns, i \in CommandInputs, md \in Methods :
       (role[c] = "client" /\ CanRecv(c) /\ agentConnection = NoConn) =>
         \E f \in Range(OnMessage(c, CommandMsg(i, md)).out) :
           f.to = c /\ f.type = "response" /\ f.id = i
  /\ \A k \in 1..Len(cmds) :
       (Connected(cmds[k].client) /\ NoDeadlineLeft) => Answered(k)

\* command k was forwarded, no terminal response was sent from its record, and
\* its client and the agent it was forwarded to are still connected
InFlight(k) ==
  /\ cmds[k].outcome = "none"
  /\ Connected(cmds[k].client)
  /\ agentConnection = cmds[k].agent
  /\ readyState[cmds[k].agent] = "OPEN"

\* C17: every in-flight command has its own pending record, owned by the client
\* that issued it, with its deadline timer armed; and no two in-flight commands
\* share a correlation id.
C17_OwnRecord ==
  /\ \A k \in 1..Len(cmds) :
       InFlight(k) =>
         /\ timers[k].state = "armed"
         /\ \E e \in Range(pendingCommands) :
              e.timeout = k /\ e.id = timers[k].id /\ e.client = cmds[k].client
  /\ \A k1 \in 1..Len(cmds), k2 \in 1..Len(cmds) :
       (k1 # k2 /\ InFlight(k1) /\ InFlight(k2)) => timers[k1].id # timers[k2].id

\* C18: the counter never decreases; a command without an id takes the next
\* counter value, and the id minted from it is the id of no pending command.
C18_MintedIdFresh ==
  /\ \A c \in Conns :
       CanRecv(c) =>
         /\ \A m \in AllMsgs : OnMessage(c, m).requestCounter >= requestCounter
         /\ OnMalformed(c).requestCounter = requestCounter
  /\ \A c \in Conns : CanClose(c) => OnClose(c).requestCounter = requestCounter
  /\ \A k \in 1..Len(timers) :
       CanFire(k) => OnTimeout(k).requestCounter = requestCounter
  /\ \A c \in Conns, md \in Methods :
       (role[c] = "client" /\ CanRecv(c) /\ agentConnection # NoConn) =>
         LET r == OnMessage(c, CommandMsg(NULL, md))
             minted == r.timers[Len(r.timers)].id
         IN /\ r.requestCounter = requestCounter + 1
            /\ minted = MintId(r.requestCounter)
            /\ ~Has(pendingCommands, minted)

\* C20: the deadline timer of command k, when it fires, sends a 'Command
\* timeout' and removes a record only if the record is command k's own; a timer
\* whose command has no record left sends nothing and removes nothing.
C20_OwnDeadlineOnly ==
  \A k \in 1..Len(timers) :
    CanFire(k) =>
      LET r == OnTimeout(k)
      IN (r.out # <<>> \/ r.pendingCommands # pendingCommands) =>
           /\ Has(pendingCommands, timers[k].id)
           /\ Get(pendingCommands, timers[k].id).timeout = k

\* handler result r keeps pending record e: same id, owner and timer, still armed
Keeps(r, e) == e \in Range(r.pendingCommands) /\ r.timers[e.timeout] = timers[e.timeout]

\* C21: a pending record is removed only by a response of the current agent with
\* its id, by its own deadline, by the close of its owner or by the close of the
\* current agent; every other input (another command included) keeps every
\* existing record with its id, owner and timer.
C21_RemovedOnlyBy ==
  /\ \A c \in Conns :
       CanRecv(c) =>
         /\ \A m \in StateMsgs \cup CommandMsgs, e \in Range(pendingCommands) :
              (m.type = "response" /\ c = agentConnection /\ m.id = e.id)
                \/ Keeps(OnMessage(c, m), e)
         /\ \A e \in Range(pendingCommands) : Keeps(OnMalformed(c), e)
  /\ \A c \in Conns, e \in Range(pendingCommands) :
       CanClose(c) => (c = e.client \/ c = agentConnection \/ Keeps(OnClose(c), e))
  /\ \A k \in 1..Len(timers), e \in Range(pendingCommands) :
       CanFire(k) => (e.timeout = k \/ Keeps(OnTimeout(k), e))

\* C24: a response resolves a pending command only if it comes from the agent
\* connection the command was forwarded to; the response of an agent that took
\* the slot later sends nothing and leaves the record and its timer alone.
C24_AnswerFromOwnAgent ==
  \A e \in Range(pendingCommands), s \in BOOLEAN :
    (/\ agentConnection # NoConn
     /\ CanRecv(agentConnection)
     /\ cmds[e.timeout].agent # agentConnection) =>
      LET r == OnMessage(agentConnection, ResponseMsg(e.id, s))
      IN r.out = <<>> /\ Keeps(r, e)


\* C28: no message arriving on a connection the gate has rejected makes it a
\* member of the ClientSet or the occupant of the agent slot.
C28_RejectedNeverAdmitted ==
  \A c \in Conns, m \in AllMsgs :
    Rejected(c) =>
      LET r == OnMessage(c, m)
      IN c \notin Range(r.clients) /\ r.agentConnection # c


\* what the environment variable of setting s says: the string, the port it
\* spells, whether it is 'true', the non-empty trimmed origins
FromEnv(s) ==
  IF s \in Strings THEN env[s]
  ELSE IF s \in Ports THEN parseInt(env[s])
  ELSE IF s \in Toggles THEN env[s] = "true"
  ELSE SelectSeq([i \in 1..Len(env[s]) |-> trim(env[s][i])], LAMBDA x : x # "")

FromFile(s) == IF s \in Toggles THEN fileConfig[s] = "TRUE" ELSE fileConfig[s]

\* C33: every setting resolves to the environment variable's value when the
\* variable is set, else to the file's value when the file has the field, else
\* to the built-in default.
C33_EnvFileDefault ==
  config # <<>> =>
    \A s \in Settings :
      config[s] = IF env[s] # Unset(s) THEN FromEnv(s)
                  ELSE IF fileConfig[s] # Absent(s) THEN FromFile(s)
                  ELSE defaultConfig[s]


\* C35: after disconnect() no connection is opened by the reconnect timer, and
\* isConnected stays false until the user calls connect().
C35_NoReconnectAfterDisconnect ==
  /\ \A k \in ClientSockets : ~puppetClient.sockets[k].late
  /\ puppetClient.disconnected => ~puppetClient.isConnected


\* socket k of the agent is connecting or open
Live(k) == serverConnection.sockets[k].state \in {"CONNECTING", "OPEN"}

\* C36: the agent has at most one live socket to the coordinator, and the
\* module's socket reference denotes it.
C36_OneLiveSocket ==
  \A k, j \in AgentSockets :
    Live(k) => (serverConnection.ws = k /\ (Live(j) => j = k))

\* C37: on every connection that has been established the first message the
\* agent has sent is its identify, and while no socket is live after a close a
\* reconnection is due.
C37_IdentifyFirst ==
  /\ \A k \in AgentSockets :
       serverConnection.sockets[k].opened => serverConnection.sockets[k].first = "identify"
  /\ (AgentSockets # {} /\ \A k \in AgentSockets : ~Live(k)) =>
       (serverConnection.reconnects > 0
          \/ \E k \in AgentSockets : serverConnection.sockets[k].state = "CLOSING")

\* C38: a command received while a handler is registered gets at most one
\* response, with the command's id: the handler's result, or a failure when the
\* method is missing or unknown or the handler throws; none is sent only if the
\* socket the command arrived on is no longer open when the result is ready.
C38_OneResponsePerCommand ==
  \A i \in 1..Len(serverConnection.commands) :
    LET c == serverConnection.commands[i]
    IN /\ c.responses <= 1
       /\ c.responses = 1 =>
            /\ c.sentId = c.id
            /\ c.kind = IF c.method \in {NULL, ""} THEN "missing method"
                        ELSE IF c.method \notin Recognized THEN "failure"
                        ELSE c.kind
            /\ c.kind \in {"result", "failure", "missing method"}
       /\ (c.stage = "done" /\ c.responses = 0) => c.dropped # "OPEN"

====
